---- MODULE Spec2Model ----
(***************************************************************************)
(* The ontology-construction pipeline of cosmogony (src/src/lib.rs):      *)
(* get_zones_and_stats, then create_ontology = find_inclusions,           *)
(* type_zones (parallel map, sequential merge), build_hierarchy,          *)
(* compute_additional_places, compute_names, compute_labels and           *)
(* clean_untagged_zones.                                                   *)
(*                                                                         *)
(* Option<T> is a sequence of length at most one: None is <<>> and        *)
(* Some(x) is <<x>>.  A ZoneIndex is the 0-based position of lib.rs, so   *)
(* the zone of index k is zones[k + 1].  A boundary is a finite set of    *)
(* cells of the plane; a zone contains another when its cells cover the   *)
(* other's cells.                                                          *)
(***************************************************************************)
EXTENDS Integers, Sequences, FiniteSets, TLC

\* ------------------------------------------------------------ bounds

\* Number of objects of the parsed pbf.
MaxObjs == 3

\* Boundaries a relation may have (sets of cells).
Geoms == {{1}, {1, 2}, {1, 2, 3}}

\* Administrative levels a relation may carry (Option<u32>) with any of
\* the boundaries.
Levels == {<<2>>, <<4>>, <<8>>}

\* Boundaries of the relations that carry no administrative level.
UnlevelledGeoms == {{1, 2}}

\* Cells a place node may lie in.
PlaceCells == {3}

\* Global country codes the caller may pass (Option<String>).
GlobalCodes == {<<>>, <<"fr">>, <<"zz">>}

\* ------------------------------------------------------------ options

None == <<>>

Some(x) == <<x>>

IsSome(o) == o # <<>>

Unwrap(o) == o[1]

\* Option::unwrap_or
UnwrapOr(o, d) == IF o = <<>> THEN d ELSE o[1]

\* ------------------------------------------------------------ the input

\* The objects of the pbf, in the BTreeMap's key order.  kind "zone": an
\* administrative relation from which a zone with a boundary is built;
\* "noboundary": one whose zone has no boundary; "nozone": one for which
\* Zone::from_osm_relation gives None; "place": a place node (not is_admin).
\* A relation of the top administrative level carries its country's ISO tag.
ZoneObjs ==
    { [kind |-> "zone", cells |-> g, level |-> l,
       iso |-> IF l = Some(2) THEN Some("FR") ELSE None] :
      g \in Geoms, l \in Levels }
    \cup { [kind |-> "zone", cells |-> g, level |-> None, iso |-> None] :
            g \in UnlevelledGeoms }

PlaceObjs ==
    { [kind |-> "place", cells |-> {c}, level |-> None, iso |-> None] :
      c \in PlaceCells }

DiscardedObjs ==
    { [kind |-> k, cells |-> {}, level |-> None, iso |-> None] :
      k \in {"noboundary", "nozone"} }

PbfObjs == ZoneObjs \cup PlaceObjs

\* Administrative levels of the relations whose level has no rule: the
\* integer 0 and an absent level, next to the country level.
EdgeLevels == {<<0>>, <<>>, <<2>>}

\* Boundaries of those relations.
EdgeGeoms == {{1}, {1, 2}}

EdgeZoneObjs ==
    { [kind |-> "zone", cells |-> g, level |-> l,
       iso |-> IF l = Some(2) THEN Some("FR") ELSE None] :
      g \in EdgeGeoms, l \in EdgeLevels }

\* The candidate relations: those a zone is kept of and those discarded.
CandidateObjs == EdgeZoneObjs \cup DiscardedObjs

is_admin(obj) == obj.kind \in {"zone", "noboundary", "nozone"}

is_place(obj) == obj.kind = "place"

\* ------------------------------------------------------------ state

VARIABLES
    pbf,              \* parsed_pbf: the sequence of objects, by OsmId
    country_code,     \* the global country code given by the caller
    disable_voronoi,  \* the caller's flag
    zones,            \* Vec<Zone>
    stats,            \* CosmogonyStats
    inclusions,       \* Vec<Vec<ZoneIndex>> of find_inclusions
    zones_type,       \* the side collection of type_zones
    merged,           \* zones the merge of type_zones has gone through
    labelled,         \* the loop variable i of compute_labels
    cleaned,          \* calls of clean_untagged_zones so far
    pc,               \* where the run is
    result            \* what create_ontology returned: "none" (not yet),
                      \* "Ok", "ErrRules" or "ErrNoCountry"

vars ==
    << pbf, country_code, disable_voronoi, zones, stats, inclusions,
       zones_type, merged, labelled, cleaned, pc, result >>

\* ------------------------------------------------------------ zones

\* Zone::from_osm_relation: the zone of a relation, with the index it is
\* given; None when no zone can be built.  A zone starts without type,
\* country code, parent and label.
FromOsmRelation(obj, osm_id, next_index) ==
    IF obj.kind = "nozone"
    THEN None
    ELSE Some([ id |-> next_index,
                osm_id |-> osm_id,
                boundary |-> IF obj.kind = "zone" THEN Some(obj.cells) ELSE None,
                admin_level |-> obj.level,
                iso |-> obj.iso,
                zone_type |-> None,
                country_code |-> None,
                parent |-> None,
                name |-> None,
                label |-> None ])

\* A loop that numbers the candidate relations, kept or not.
RECURSIVE ReadZonesCountingCandidates(_, _, _)
ReadZonesCountingCandidates(objs, k, acc) ==
    IF k > Len(objs)
    THEN acc
    ELSE IF ~is_admin(objs[k])
    THEN ReadZonesCountingCandidates(objs, k + 1, acc)
    ELSE LET next_index == Cardinality({ j \in 1 .. (k - 1) : is_admin(objs[j]) })
             zone == FromOsmRelation(objs[k], k, next_index)
         IN  IF IsSome(zone) /\ IsSome(Unwrap(zone).boundary)
             THEN ReadZonesCountingCandidates(objs, k + 1, Append(acc, Unwrap(zone)))
             ELSE ReadZonesCountingCandidates(objs, k + 1, acc)

\* The loop of get_zones_and_stats over pbf.values(), from object k on.
RECURSIVE ReadZones(_, _, _)
ReadZones(objs, k, acc) ==
    IF k > Len(objs)
    THEN acc
    ELSE IF ~is_admin(objs[k])
    THEN ReadZones(objs, k + 1, acc)
    ELSE LET next_index == Len(acc)
             zone == FromOsmRelation(objs[k], k, next_index)
         IN  IF IsSome(zone) /\ IsSome(Unwrap(zone).boundary)
             THEN ReadZones(objs, k + 1, Append(acc, Unwrap(zone)))
             ELSE ReadZones(objs, k + 1, acc)

\* An empty BTreeMap.
EmptyMap == [k \in {} |-> 0]

\* *map.entry(key).or_insert(0) += 1
Incr(map, key) ==
    IF key \in DOMAIN map
    THEN [map EXCEPT ![key] = @ + 1]
    ELSE map @@ (key :> 1)

\* *map.entry(k1).or_insert_with(BTreeMap::new).entry(k2).or_insert(0) += 1
Incr2(map, k1, k2) ==
    IF k1 \in DOMAIN map
    THEN [map EXCEPT ![k1] = Incr(@, k2)]
    ELSE map @@ (k1 :> Incr(EmptyMap, k2))

\* CosmogonyStats::default()
DefaultStats ==
    [ zone_without_country |-> 0,
      zone_with_unkwown_country_rules |-> EmptyMap,
      unhandled_admin_level |-> EmptyMap ]

\* The ZoneIndex values of a collection.
Indices(zs) == 0 .. (Len(zs) - 1)

\* zones[idx.index]
At(zs, idx) == zs[idx + 1]

Cells(z) == Unwrap(z.boundary)

\* Zone::contains: the other zone's boundary lies inside this one's.
Contains(z, other) == Cells(other) \subseteq Cells(z)

\* ------------------------------------------------------------ typing

\* The per-country rule tables: country code -> administrative level ->
\* semantic type.  Only FR has a table.
Rules ==
    [ c \in {"FR"} |-> (2 :> "Country" @@ 4 :> "Region" @@ 8 :> "City") ]

\* String::to_uppercase on the codes in use.
ToUpper(s) ==
    CASE s = "fr" -> "FR"
      [] s = "zz" -> "ZZ"
      [] OTHER -> s

\* The values of Option<Result<(String, ZoneType), ZoneTyperError>>, and
\* Pending for an entry of the side collection not computed yet.
Pending == [kind |-> "Pending", cc |-> "", t |-> "", lvl |-> None]

NoCountry == [kind |-> "None", cc |-> "", t |-> "", lvl |-> None]

OkType(c, t) == [kind |-> "Ok", cc |-> c, t |-> t, lvl |-> None]

InvalidCountry(c) == [kind |-> "InvalidCountry", cc |-> c, t |-> "", lvl |-> None]

UnkownLevel(lvl, c) == [kind |-> "UnkownLevel", cc |-> c, t |-> "", lvl |-> lvl]

\* ZoneTyper::get_zone_type
get_zone_type(z, c, incl, zs) ==
    IF c \notin DOMAIN Rules
    THEN InvalidCountry(c)
    ELSE IF IsSome(z.admin_level) /\ Unwrap(z.admin_level) \in DOMAIN Rules[c]
    THEN OkType(c, Rules[c][Unwrap(z.admin_level)])
    ELSE UnkownLevel(z.admin_level, c)

\* CountryFinder::init: the zones that are whole countries, by index.
CountryFinderInit(zs) ==
    { k \in Indices(zs) :
        /\ IsSome(At(zs, k).iso)
        /\ get_zone_type(At(zs, k), ToUpper(Unwrap(At(zs, k).iso)), <<>>, zs).kind = "Ok"
        /\ get_zone_type(At(zs, k), ToUpper(Unwrap(At(zs, k).iso)), <<>>, zs).t = "Country" }

\* The country code the finder holds for country k.
CountryIso(zs, k) == ToUpper(Unwrap(At(zs, k).iso))

\* The first entry of a containment list that is a country, if any.
RECURSIVE FirstCountry(_, _)
FirstCountry(finder, incl) ==
    IF incl = <<>>
    THEN None
    ELSE IF Head(incl) \in finder
    THEN Some(Head(incl))
    ELSE FirstCountry(finder, Tail(incl))

Min(S) == CHOOSE m \in S : \A x \in S : m <= x

Max(S) == CHOOSE m \in S : \A x \in S : x <= m

\* A zone's representative point, a cell of its boundary.
Point(z) == Max(Cells(z))

\* CountryFinder::find_zone_country: the country of the containment list,
\* else the country whose boundary holds the zone's representative point.
find_zone_country(finder, zs, z, incl) ==
    LET listed == FirstCountry(finder, incl)
        around == { k \in finder : Point(z) \in Cells(At(zs, k)) }
    IN  IF IsSome(listed)
        THEN Some(CountryIso(zs, Unwrap(listed)))
        ELSE IF around # {}
        THEN Some(CountryIso(zs, Min(around)))
        ELSE None

\* A resolution that asks the finder first and falls back on the global
\* code.
get_country_code_finder_first(finder, zs, z, cc, incl) ==
    LET found == find_zone_country(finder, zs, z, incl)
    IN  IF IsSome(found)
        THEN found
        ELSE IF IsSome(cc)
        THEN Some(ToUpper(Unwrap(cc)))
        ELSE None

\* get_country_code
get_country_code(finder, zs, z, cc, incl) ==
    IF IsSome(cc)
    THEN Some(ToUpper(Unwrap(cc)))
    ELSE find_zone_country(finder, zs, z, incl)

\* The closure of the parallel map of type_zones, on zone z.
TypeOf(finder, zs, z, cc, incls) ==
    LET c == get_country_code(finder, zs, z, cc, At(incls, z.id))
    IN  IF IsSome(c)
        THEN get_zone_type(z, Unwrap(c), At(incls, z.id), zs)
        ELSE NoCountry

\* ------------------------------------------------------------ hierarchy

\* The administrative level as a rank, an absent level counting as 0.
LevelRank(z) == UnwrapOr(z.admin_level, 0)

\* The order of a containment list: ascending size of the enclosing zone,
\* then the more local administrative level, then the lowest index.
Tighter(zs, a, b) ==
    LET za == At(zs, a)
        zb == At(zs, b)
    IN  \/ Cardinality(Cells(za)) < Cardinality(Cells(zb))
        \/ /\ Cardinality(Cells(za)) = Cardinality(Cells(zb))
           /\ \/ LevelRank(za) > LevelRank(zb)
              \/ LevelRank(za) = LevelRank(zb) /\ a < b

\* The indices of S as a list, tightest first.
RECURSIVE TightestFirst(_, _)
TightestFirst(zs, S) ==
    IF S = {}
    THEN <<>>
    ELSE LET m == CHOOSE a \in S : \A b \in S \ {a} : Tighter(zs, a, b)
         IN  <<m>> \o TightestFirst(zs, S \ {m})

\* find_inclusions: for every zone, the other zones that contain it.
find_inclusions(zs) ==
    [ p \in 1 .. Len(zs) |->
        TightestFirst(zs, { j \in Indices(zs) :
                              j # p - 1 /\ Contains(At(zs, j), zs[p]) }) ]

\* Two zones that contain each other (coincident boundaries).
Coincident(zs, a, b) == Contains(At(zs, a), At(zs, b)) /\ Contains(At(zs, b), At(zs, a))

\* Of two coincident zones, a is the enclosing one: the less local
\* administrative level, then the lowest index.
Outranks(zs, a, b) ==
    \/ LevelRank(At(zs, a)) < LevelRank(At(zs, b))
    \/ LevelRank(At(zs, a)) = LevelRank(At(zs, b)) /\ a < b

\* A builder that takes any enclosing zone as parent.
MayBeParentAlways(zs, k, c) == TRUE

\* Whether c may be the parent of zone k: it encloses k, and when the two
\* contain each other c is the enclosing one of the pair.
MayBeParent(zs, k, c) == ~Coincident(zs, k, c) \/ Outranks(zs, c, k)

\* A builder that takes the largest enclosing zone.
FindParentLargest(zs, k, incl) ==
    IF incl = <<>> THEN None ELSE Some(incl[Len(incl)])

\* The parent the hierarchy builder gives zone k: the first entry of its
\* containment list that may be its parent.
RECURSIVE FindParent(_, _, _)
FindParent(zs, k, incl) ==
    IF incl = <<>>
    THEN None
    ELSE IF MayBeParent(zs, k, Head(incl))
    THEN Some(Head(incl))
    ELSE FindParent(zs, k, Tail(incl))

\* build_hierarchy
build_hierarchy(zs, incls) ==
    [ p \in 1 .. Len(zs) |->
        [zs[p] EXCEPT !.parent = FindParent(zs, p - 1, incls[p])] ]

\* ------------------------------------------------------------ places

\* An administrative zone: typed, and not as NonAdministrative.
IsAdminZone(z) == IsSome(z.zone_type) /\ Unwrap(z.zone_type) # "NonAdministrative"

\* compute_additional_places, from object k of the pbf on: each place node
\* inside an administrative zone becomes a synthetic non-administrative
\* zone whose parent is the tightest such zone; other places are skipped.
RECURSIVE AddPlaces(_, _, _, _)
AddPlaces(seeds, objs, k, acc) ==
    IF k > Len(objs)
    THEN acc
    ELSE IF ~is_place(objs[k])
    THEN AddPlaces(seeds, objs, k + 1, acc)
    ELSE LET around == { j \in Indices(seeds) :
                          /\ IsAdminZone(At(seeds, j))
                          /\ objs[k].cells \subseteq Cells(At(seeds, j)) }
         IN  IF around = {}
             THEN AddPlaces(seeds, objs, k + 1, acc)
             ELSE AddPlaces(seeds, objs, k + 1,
                      Append(acc,
                          [ id |-> Len(acc),
                            osm_id |-> k,
                            boundary |-> Some(objs[k].cells),
                            admin_level |-> None,
                            iso |-> None,
                            zone_type |-> Some("NonAdministrative"),
                            country_code |-> None,
                            parent |-> Some(Head(TightestFirst(seeds, around))),
                            name |-> None,
                            label |-> None ]))

compute_additional_places(zs, objs) == AddPlaces(zs, objs, 1, zs)

\* ------------------------------------------------------------ labels

\* Zone::compute_names
compute_names(z) == [z EXCEPT !.name = Some(z.osm_id)]

\* The names met walking the parent references up from zone k, at most
\* fuel zones far.
RECURSIVE NamesUp(_, _, _)
NamesUp(zs, k, fuel) ==
    IF fuel = 0
    THEN <<>>
    ELSE LET z == At(zs, k)
             own == IF IsSome(z.name) THEN <<Unwrap(z.name)>> ELSE <<>>
         IN  IF IsSome(z.parent)
             THEN own \o NamesUp(zs, Unwrap(z.parent), fuel - 1)
             ELSE own

\* Zone::compute_labels on zones[i], reading the other zones.
ZoneComputeLabels(zs, i) ==
    [At(zs, i) EXCEPT !.label = Some(NamesUp(zs, i, Len(zs)))]

\* ------------------------------------------------------------ pruning

HasType(z) == IsSome(z.zone_type)

HasCountryCode(z) == IsSome(z.country_code)

\* A retain on the wrong field: keeps the zones that have a country code.
clean_zones_without_country(zs) == SelectSeq(zs, HasCountryCode)

\* A prune that renumbers the zones it keeps by their new positions.
clean_untagged_zones_renumbering(zs) ==
    LET kept == SelectSeq(zs, HasType)
    IN  [ q \in 1 .. Len(kept) |-> [kept[q] EXCEPT !.id = q - 1] ]

\* clean_untagged_zones: zones.retain(|z| z.zone_type.is_some())
clean_untagged_zones(zs) == SelectSeq(zs, HasType)

\* ------------------------------------------------------------ the run

Init ==
    /\ pbf \in UNION { [1 .. n -> PbfObjs] : n \in 0 .. MaxObjs }
    /\ country_code \in GlobalCodes
    /\ disable_voronoi \in BOOLEAN
    /\ zones = <<>>
    /\ stats = DefaultStats
    /\ inclusions = <<>>
    /\ zones_type = <<>>
    /\ merged = 0
    /\ labelled = 0
    /\ cleaned = 0
    /\ pc = "get_zones_and_stats"
    /\ result = "none"

\* get_zones_and_stats
GetZonesAndStats ==
    /\ pc = "get_zones_and_stats"
    /\ zones' = ReadZones(pbf, 1, <<>>)
    /\ stats' = DefaultStats
    /\ pc' = "find_inclusions"
    /\ UNCHANGED << pbf, country_code, disable_voronoi, inclusions, zones_type,
                    merged, labelled, cleaned, result >>

\* create_ontology: find_inclusions(zones)
FindInclusions ==
    /\ pc = "find_inclusions"
    /\ inclusions' = find_inclusions(zones)
    /\ pc' = "type_zones"
    /\ UNCHANGED << pbf, country_code, disable_voronoi, zones, stats, zones_type,
                    merged, labelled, cleaned, result >>

\* type_zones: ZoneTyper::new()? fails, and create_ontology returns the error.
TypeZonesRulesError ==
    /\ pc = "type_zones"
    /\ pc' = "done"
    /\ result' = "ErrRules"
    /\ UNCHANGED << pbf, country_code, disable_voronoi, zones, stats, inclusions,
                    zones_type, merged, labelled, cleaned >>

\* The test with the finder's emptiness negated.
NoCountrySourceNegated(cc, finder) == cc = None /\ finder # {}

\* The test of type_zones for a source of country codes.
NoCountrySource(cc, finder) == cc = None /\ finder = {}

\* type_zones: no country code and no country found, an error.
TypeZonesNoCountry ==
    /\ pc = "type_zones"
    /\ NoCountrySource(country_code, CountryFinderInit(zones))
    /\ pc' = "done"
    /\ result' = "ErrNoCountry"
    /\ UNCHANGED << pbf, country_code, disable_voronoi, zones, stats, inclusions,
                    zones_type, merged, labelled, cleaned >>

\* type_zones: the parallel map starts, no entry of the side collection
\* computed yet.
TypeZonesMap ==
    /\ pc = "type_zones"
    /\ ~NoCountrySource(country_code, CountryFinderInit(zones))
    /\ zones_type' = [p \in 1 .. Len(zones) |-> Pending]
    /\ pc' = "map"
    /\ UNCHANGED << pbf, country_code, disable_voronoi, zones, stats, inclusions,
                    merged, labelled, cleaned, result >>

\* A collection filled in the order the workers finish.
CollectedInCompletionOrder(side, k, outcome) ==
    [side EXCEPT ![Min({ p \in 1 .. Len(side) : side[p] = Pending })] = outcome]

\* The side collection with the outcome of the zone at position k stored.
Collected(side, k, outcome) == [side EXCEPT ![k + 1] = outcome]

\* A worker of the parallel map runs the closure on the zone at position k.
MapWorker(k) ==
    /\ pc = "map"
    /\ zones_type[k + 1] = Pending
    /\ zones_type' =
           Collected(zones_type, k,
               TypeOf(CountryFinderInit(zones), zones, At(zones, k),
                      country_code, inclusions))
    /\ UNCHANGED << pbf, country_code, disable_voronoi, zones, stats, inclusions,
                    merged, labelled, cleaned, pc, result >>

\* A merge that starts without waiting for the workers.
CollectWithoutBarrier ==
    /\ pc = "map"
    /\ pc' = "merge"
    /\ merged' = 0
    /\ UNCHANGED << pbf, country_code, disable_voronoi, zones, stats, inclusions,
                    zones_type, labelled, cleaned, result >>

\* collect() returns once every worker is done; the merge starts.
Collect ==
    /\ pc = "map"
    /\ \A p \in 1 .. Len(zones_type) : zones_type[p] # Pending
    /\ pc' = "merge"
    /\ merged' = 0
    /\ UNCHANGED << pbf, country_code, disable_voronoi, zones, stats, inclusions,
                    zones_type, labelled, cleaned, result >>

\* A merge that types the zones of a country without rules.
MergeZoneTypingUnmapped(z, o) ==
    CASE o.kind = "Ok" ->
            [z EXCEPT !.country_code = Some(o.cc), !.zone_type = Some(o.t)]
      [] o.kind = "InvalidCountry" ->
            [z EXCEPT !.country_code = Some(o.cc),
                      !.zone_type = Some("NonAdministrative")]
      [] o.kind = "UnkownLevel" ->
            [z EXCEPT !.country_code = Some(o.cc)]
      [] OTHER -> z

\* The merge's closure on a zone: what it writes to the zone.
MergeZone(z, o) ==
    CASE o.kind = "Ok" ->
            [z EXCEPT !.country_code = Some(o.cc), !.zone_type = Some(o.t)]
      [] o.kind \in {"InvalidCountry", "UnkownLevel"} ->
            [z EXCEPT !.country_code = Some(o.cc)]
      [] OTHER -> z

\* A merge that does not count the zones without country.
MergeStatsSkippingNone(st, o) ==
    CASE o.kind = "InvalidCountry" ->
            [st EXCEPT !.zone_with_unkwown_country_rules = Incr(@, o.cc)]
      [] o.kind = "UnkownLevel" ->
            [st EXCEPT !.unhandled_admin_level = Incr2(@, o.cc, UnwrapOr(o.lvl, 0))]
      [] OTHER -> st

\* A merge that counts a level only when the zone has one.
MergeStatsSkippingAbsentLevel(st, o) ==
    CASE o.kind = "None" ->
            [st EXCEPT !.zone_without_country = @ + 1]
      [] o.kind = "InvalidCountry" ->
            [st EXCEPT !.zone_with_unkwown_country_rules = Incr(@, o.cc)]
      [] o.kind = "UnkownLevel" /\ IsSome(o.lvl) ->
            [st EXCEPT !.unhandled_admin_level = Incr2(@, o.cc, Unwrap(o.lvl))]
      [] OTHER -> st

\* The merge's closure on a zone: what it writes to the statistics.
MergeStats(st, o) ==
    CASE o.kind = "None" ->
            [st EXCEPT !.zone_without_country = @ + 1]
      [] o.kind = "InvalidCountry" ->
            [st EXCEPT !.zone_with_unkwown_country_rules = Incr(@, o.cc)]
      [] o.kind = "UnkownLevel" ->
            [st EXCEPT !.unhandled_admin_level = Incr2(@, o.cc, UnwrapOr(o.lvl, 0))]
      [] OTHER -> st

\* A merge that gives up on a zone without country.
MergeStepAborting ==
    /\ pc = "merge"
    /\ merged < Len(zones)
    /\ IF zones_type[merged + 1].kind = "None"
       THEN /\ pc' = "done"
            /\ result' = "ErrNoCountry"
            /\ UNCHANGED << zones, stats, merged >>
       ELSE /\ zones' = [zones EXCEPT ![merged + 1] = MergeZone(@, zones_type[merged + 1])]
            /\ stats' = MergeStats(stats, zones_type[merged + 1])
            /\ merged' = merged + 1
            /\ UNCHANGED << pc, result >>
    /\ UNCHANGED << pbf, country_code, disable_voronoi, inclusions, zones_type,
                    labelled, cleaned >>

\* One step of zones.iter_mut().zip(zones_type).for_each(..)
MergeStep ==
    /\ pc = "merge"
    /\ merged < Len(zones)
    /\ zones' = [zones EXCEPT ![merged + 1] = MergeZone(@, zones_type[merged + 1])]
    /\ stats' = MergeStats(stats, zones_type[merged + 1])
    /\ merged' = merged + 1
    /\ UNCHANGED << pbf, country_code, disable_voronoi, inclusions, zones_type,
                    labelled, cleaned, pc, result >>

\* type_zones returns Ok(())
TypeZonesReturn ==
    /\ pc = "merge"
    /\ merged = Len(zones)
    /\ pc' = "build_hierarchy"
    /\ UNCHANGED << pbf, country_code, disable_voronoi, zones, stats, inclusions,
                    zones_type, merged, labelled, cleaned, result >>

\* create_ontology: build_hierarchy(zones, inclusions)
BuildHierarchy ==
    /\ pc = "build_hierarchy"
    /\ zones' = build_hierarchy(zones, inclusions)
    /\ pc' = "additional_places"
    /\ UNCHANGED << pbf, country_code, disable_voronoi, stats, inclusions,
                    zones_type, merged, labelled, cleaned, result >>

\* create_ontology: compute_additional_places, unless disabled
ComputeAdditionalPlaces ==
    /\ pc = "additional_places"
    /\ ~disable_voronoi
    /\ zones' = compute_additional_places(zones, pbf)
    /\ pc' = "compute_names"
    /\ UNCHANGED << pbf, country_code, disable_voronoi, stats, inclusions,
                    zones_type, merged, labelled, cleaned, result >>

\* A create_ontology that attributes the places whatever the flag says.
SkipAdditionalPlacesAttributing ==
    /\ pc = "additional_places"
    /\ disable_voronoi
    /\ zones' = compute_additional_places(zones, pbf)
    /\ pc' = "compute_names"
    /\ UNCHANGED << pbf, country_code, disable_voronoi, stats, inclusions,
                    zones_type, merged, labelled, cleaned, result >>

\* create_ontology: disable_voronoi is set, compute_additional_places is
\* not called
SkipAdditionalPlaces ==
    /\ pc = "additional_places"
    /\ disable_voronoi
    /\ pc' = "compute_names"
    /\ UNCHANGED << pbf, country_code, disable_voronoi, zones, stats, inclusions,
                    zones_type, merged, labelled, cleaned, result >>

\* A create_ontology that prunes before the labels are computed.
ComputeNamesThenClean ==
    /\ pc = "compute_names"
    /\ zones' = clean_untagged_zones([p \in 1 .. Len(zones) |-> compute_names(zones[p])])
    /\ cleaned' = cleaned + 1
    /\ labelled' = 0
    /\ pc' = "compute_labels"
    /\ UNCHANGED << pbf, country_code, disable_voronoi, stats, inclusions,
                    zones_type, merged, result >>

\* create_ontology: zones.iter_mut().for_each(|z| z.compute_names())
ComputeNames ==
    /\ pc = "compute_names"
    /\ zones' = [p \in 1 .. Len(zones) |-> compute_names(zones[p])]
    /\ labelled' = 0
    /\ pc' = "compute_labels"
    /\ UNCHANGED << pbf, country_code, disable_voronoi, stats, inclusions,
                    zones_type, merged, cleaned, result >>

\* A loop that takes its mutable zone at the start of the slice on every
\* turn.
ComputeLabelsStepAtFirst ==
    /\ pc = "compute_labels"
    /\ labelled < Len(zones)
    /\ zones' = [zones EXCEPT ![1] = ZoneComputeLabels(zones, labelled)]
    /\ labelled' = labelled + 1
    /\ UNCHANGED << pbf, country_code, disable_voronoi, stats, inclusions,
                    zones_type, merged, cleaned, pc, result >>

\* compute_labels: one turn of the loop, on zone i = labelled
ComputeLabelsStep ==
    /\ pc = "compute_labels"
    /\ labelled < Len(zones)
    /\ zones' = [zones EXCEPT ![labelled + 1] = ZoneComputeLabels(zones, labelled)]
    /\ labelled' = labelled + 1
    /\ UNCHANGED << pbf, country_code, disable_voronoi, stats, inclusions,
                    zones_type, merged, cleaned, pc, result >>

\* create_ontology: clean_untagged_zones(zones), then Ok(())
CleanUntaggedZones ==
    /\ pc = "compute_labels"
    /\ labelled = Len(zones)
    /\ zones' = clean_untagged_zones(zones)
    /\ cleaned' = cleaned + 1
    /\ pc' = "done"
    /\ result' = "Ok"
    /\ UNCHANGED << pbf, country_code, disable_voronoi, stats, inclusions,
                    zones_type, merged, labelled >>

Next ==
    \/ GetZonesAndStats
    \/ FindInclusions
    \/ TypeZonesRulesError
    \/ TypeZonesNoCountry
    \/ TypeZonesMap
    \/ \E k \in Indices(zones) : MapWorker(k)
    \/ Collect
    \/ MergeStep
    \/ TypeZonesReturn
    \/ BuildHierarchy
    \/ ComputeAdditionalPlaces
    \/ SkipAdditionalPlaces
    \/ ComputeNames
    \/ ComputeLabelsStep
    \/ CleanUntaggedZones

Spec == Init /\ [][Next]_vars

\* The runs on candidate relations of which some are discarded and some
\* have the level 0 or no level.
InitCandidates ==
    /\ pbf \in UNION { [1 .. n -> CandidateObjs] : n \in 0 .. MaxObjs }
    /\ country_code \in GlobalCodes
    /\ disable_voronoi \in BOOLEAN
    /\ zones = <<>>
    /\ stats = DefaultStats
    /\ inclusions = <<>>
    /\ zones_type = <<>>
    /\ merged = 0
    /\ labelled = 0
    /\ cleaned = 0
    /\ pc = "get_zones_and_stats"
    /\ result = "none"

SpecCandidates == InitCandidates /\ [][Next]_vars

\* ------------------------------------------------------------ properties

\* The zones get_zones_and_stats builds from the pbf.
ReadFromPbf == ReadZones(pbf, 1, <<>>)

\* C1: after create_ontology returns Ok every zone left has a zone_type;
\* the prune removes exactly the zones without zone_type and keeps the
\* others in their order (no zone added, none repeated, ids ascending).
C1_PruneKeepsExactlyTyped ==
    [][ /\ result' = "Ok" =>
              \A q \in 1 .. Len(zones') : zones'[q].zone_type # None
        /\ cleaned' # cleaned =>
              /\ \A q \in 1 .. Len(zones') :
                    /\ zones'[q].zone_type # None
                    /\ \E p \in 1 .. Len(zones) : zones[p] = zones'[q]
              /\ \A p \in 1 .. Len(zones) :
                    zones[p].zone_type # None =>
                        \E q \in 1 .. Len(zones') : zones'[q] = zones[p]
              /\ \A q1, q2 \in 1 .. Len(zones') :
                    q1 < q2 => zones'[q1].id < zones'[q2].id
      ]_vars

\* C1 witness: a run that returned Ok, in which the prune kept two zones
\* and removed a zone of the pbf.
C1_Witness ==
    /\ result = "Ok"
    /\ Len(zones) >= 2
    /\ \E k \in 1 .. Len(pbf) :
          /\ pbf[k].kind = "zone"
          /\ \A q \in 1 .. Len(zones) : zones[q].osm_id # k

\* C2: with no global country code and an empty Country Finder the run
\* returns an error and never types: no zone gets a country code, type,
\* parent or label, no counter changes and no zone is removed.
C2_NoCountrySourceAborts ==
    (country_code = None /\ CountryFinderInit(ReadFromPbf) = {}) =>
        /\ pc \in {"get_zones_and_stats", "find_inclusions", "type_zones", "done"}
        /\ pc = "done" => result \in {"ErrRules", "ErrNoCountry"}
        /\ zones \in {<<>>, ReadFromPbf}
        /\ pc = "done" => zones = ReadFromPbf
        /\ \A p \in 1 .. Len(zones) :
              /\ zones[p].country_code = None
              /\ zones[p].zone_type = None
              /\ zones[p].parent = None
              /\ zones[p].label = None
        /\ stats = DefaultStats
        /\ zones_type = <<>>
        /\ cleaned = 0

\* C2 witness: the run has returned the error with two zones in the
\* collection.
C2_Witness ==
    /\ result = "ErrNoCountry"
    /\ country_code = None
    /\ Len(zones) >= 2

\* The sum of the counters of a map.
RECURSIVE SumMapOver(_, _)
SumMapOver(map, keys) ==
    IF keys = {}
    THEN 0
    ELSE LET k == CHOOSE x \in keys : TRUE
         IN  map[k] + SumMapOver(map, keys \ {k})

SumMap(map) == SumMapOver(map, DOMAIN map)

\* The sum of the counters of a map of maps.
RECURSIVE SumMap2Over(_, _)
SumMap2Over(map, keys) ==
    IF keys = {}
    THEN 0
    ELSE LET k == CHOOSE x \in keys : TRUE
         IN  SumMap(map[k]) + SumMap2Over(map, keys \ {k})

SumMap2(map) == SumMap2Over(map, DOMAIN map)

\* How many of the first m outcomes of the side collection are of a kind.
CountKind(kind, m) == Cardinality({ p \in 1 .. m : zones_type[p].kind = kind })

TypedCount == Cardinality({ p \in 1 .. Len(zones) : zones[p].zone_type # None })

C4_StatisticsConservation ==
    pc \in {"merge", "build_hierarchy"} =>
        /\ stats.zone_without_country = CountKind("None", merged)
        /\ TypedCount = CountKind("Ok", merged)
        /\ SumMap(stats.zone_with_unkwown_country_rules)
              = CountKind("InvalidCountry", merged)
        /\ SumMap2(stats.unhandled_admin_level) = CountKind("UnkownLevel", merged)
        /\ stats.zone_without_country + TypedCount
              + SumMap(stats.zone_with_unkwown_country_rules)
              + SumMap2(stats.unhandled_admin_level) = merged
        /\ pc = "build_hierarchy" => merged = Len(zones)

\* C4 witness: type_zones returned on three zones, one without country,
\* one typed and one of unmapped level.
C4_Witness ==
    /\ pc = "build_hierarchy"
    /\ Len(zones) = 3
    /\ stats.zone_without_country = 1
    /\ TypedCount = 1
    /\ SumMap2(stats.unhandled_admin_level) = 1

\* Position p of a list holds index a.
InList(list, a) == \E i \in 1 .. Len(list) : list[i] = a

\* Following the parent references from zone k ends at a root within
\* fuel references.
RECURSIVE ReachesRoot(_, _, _)
ReachesRoot(zs, k, fuel) ==
    IF At(zs, k).parent = None
    THEN TRUE
    ELSE IF fuel = 0
    THEN FALSE
    ELSE ReachesRoot(zs, Unwrap(At(zs, k).parent), fuel - 1)

HierarchyBuilt == pc \in {"additional_places", "compute_names", "compute_labels"}

\* C5: once the hierarchy is built (and until the prune) the parent
\* relation is a forest: every parent is a zone of the collection other
\* than the zone itself, and following parents from any zone reaches a
\* root without revisiting a zone, also with coincident boundaries.
C5_ParentsFormForest ==
    HierarchyBuilt =>
        \A k \in Indices(zones) :
            /\ At(zones, k).parent # Some(k)
            /\ At(zones, k).parent # None =>
                  Unwrap(At(zones, k).parent) \in Indices(zones)
            /\ ReachesRoot(zones, k, Len(zones))

\* C5 witness: the hierarchy is built over two zones that are in each
\* other's containment list, one of them the parent of the other.
C5_Witness ==
    /\ pc = "additional_places"
    /\ \E a, b \in Indices(zones) :
          /\ a # b
          /\ InList(At(inclusions, a), b)
          /\ InList(At(inclusions, b), a)
          /\ At(zones, a).parent = Some(b)

\* C6: zones are removed by one step only, the call of
\* clean_untagged_zones, which happens once, when the typing map and
\* merge, the hierarchy, the names and every label are done, and which
\* ends the run with Ok; after it nothing changes any more.
C6_PrunedOnceAtTheEnd ==
    [][ /\ (cleaned' # cleaned \/ Len(zones') < Len(zones)) =>
              /\ cleaned = 0
              /\ cleaned' = 1
              /\ pc' = "done"
              /\ result' = "Ok"
              /\ Len(inclusions) = Len(ReadFromPbf)
              /\ Len(zones_type) = Len(ReadFromPbf)
              /\ merged = Len(zones_type)
              /\ \A p \in 1 .. Len(zones_type) : zones_type[p] # Pending
              /\ labelled = Len(zones)
              /\ \A p \in 1 .. Len(zones) :
                    zones[p].name # None /\ zones[p].label # None
        /\ cleaned >= 1 => UNCHANGED vars
        /\ result' = "Ok" => cleaned' = 1
      ]_vars

\* C6 witness: the run is over, pruned once, a labelled zone kept and a
\* zone of the typing map removed.
C6_Witness ==
    /\ pc = "done"
    /\ cleaned = 1
    /\ \E q \in 1 .. Len(zones) : zones[q].label # None /\ zones[q].parent # None
    /\ Len(zones) < Len(zones_type)

AllCollected ==
    /\ Len(zones_type) = Len(zones)
    /\ \A p \in 1 .. Len(zones_type) : zones_type[p] # Pending

\* C7: while the parallel map runs no zone and no statistic changes; the
\* merge starts only when every worker has stored its outcome; and in the
\* whole run the country_code or zone_type of a zone, or a statistic,
\* changes only in a step of the merge.
C7_WritesOnlyInMergeAfterBarrier ==
    [][ /\ pc = "map" => (zones' = zones /\ stats' = stats)
        /\ pc' = "merge" => AllCollected'
        /\ ( \/ stats' # stats
             \/ /\ cleaned' = cleaned
                /\ \E p \in 1 .. Len(zones) :
                      /\ p <= Len(zones')
                      /\ \/ zones'[p].country_code # zones[p].country_code
                         \/ zones'[p].zone_type # zones[p].zone_type )
            => (pc = "merge" /\ AllCollected)
      ]_vars

\* C7 witness: the map is under way, a worker has found a type that the
\* zone does not have yet, and another worker is not done.
C7_Witness ==
    /\ pc = "map"
    /\ \E p, q \in 1 .. Len(zones_type) :
          /\ zones_type[p] = Pending
          /\ zones_type[q].kind = "Ok"
          /\ zones[q].zone_type = None

\* The outcomes of the zones, position by position, from the zones as
\* read and their containment lists.
ExpectedOutcomes ==
    LET zs == ReadFromPbf
        finder == CountryFinderInit(zs)
    IN  [ p \in 1 .. Len(zs) |->
            TypeOf(finder, zs, zs[p], country_code, inclusions) ]

\* map[key], 0 for a key the map does not hold.
MapGet(map, key) == IF key \in DOMAIN map THEN map[key] ELSE 0

\* C8: whatever the order of the workers, the outcome stored at position
\* p is the one of the zone at position p, and after type_zones the zones
\* and the statistics are those the outcomes of the zones determine,
\* position by position.
C8_OutcomesInZoneOrder ==
    LET n == Len(zones)
        exp == ExpectedOutcomes
        positions(kind) == { p \in 1 .. n : exp[p].kind = kind }
    IN  /\ pc \in {"map", "merge", "build_hierarchy"} =>
              /\ Len(zones_type) = n
              /\ \A p \in 1 .. n :
                    zones_type[p] # Pending => zones_type[p] = exp[p]
        /\ pc = "build_hierarchy" =>
              /\ \A p \in 1 .. n :
                    /\ zones[p].osm_id = ReadFromPbf[p].osm_id
                    /\ zones[p].id = p - 1
                    /\ zones[p].zone_type =
                          (IF exp[p].kind = "Ok" THEN Some(exp[p].t) ELSE None)
                    /\ zones[p].country_code =
                          (IF exp[p].kind = "None" THEN None ELSE Some(exp[p].cc))
              /\ stats.zone_without_country = Cardinality(positions("None"))
              /\ DOMAIN stats.zone_with_unkwown_country_rules =
                    { exp[p].cc : p \in positions("InvalidCountry") }
              /\ \A p \in positions("InvalidCountry") :
                    stats.zone_with_unkwown_country_rules[exp[p].cc] =
                        Cardinality({ q \in positions("InvalidCountry") :
                                        exp[q].cc = exp[p].cc })
              /\ DOMAIN stats.unhandled_admin_level =
                    { exp[p].cc : p \in positions("UnkownLevel") }
              /\ \A p \in positions("UnkownLevel") :
                    MapGet(stats.unhandled_admin_level[exp[p].cc],
                           UnwrapOr(exp[p].lvl, 0)) =
                        Cardinality({ q \in positions("UnkownLevel") :
                                        /\ exp[q].cc = exp[p].cc
                                        /\ UnwrapOr(exp[q].lvl, 0)
                                              = UnwrapOr(exp[p].lvl, 0) })

\* C8 witness: the worker of the second zone has finished before the
\* worker of the first, and the two zones have different outcomes.
C8_Witness ==
    /\ pc = "map"
    /\ Len(zones_type) >= 2
    /\ zones_type[1] = Pending
    /\ zones_type[2] # Pending
    /\ zones_type[2] # ExpectedOutcomes[1]

\* Zones a, b, c are a country of level 2, a region of level 4 inside it
\* and a city of level 8 inside the region, typed Country, Region, City.
NestedCountryRegionCity(a, b, c) ==
    /\ At(zones, a).admin_level = Some(2)
    /\ At(zones, b).admin_level = Some(4)
    /\ At(zones, c).admin_level = Some(8)
    /\ Cells(At(zones, c)) \subseteq Cells(At(zones, b))
    /\ Cells(At(zones, c)) # Cells(At(zones, b))
    /\ Cells(At(zones, b)) \subseteq Cells(At(zones, a))
    /\ Cells(At(zones, b)) # Cells(At(zones, a))
    /\ At(zones, a).zone_type = Some("Country")
    /\ At(zones, b).zone_type = Some("Region")
    /\ At(zones, c).zone_type = Some("City")

\* The scenario of three nested zones: city under region under country.
NestedScenarioParents ==
    Len(zones) = 3 =>
        \A a, b, c \in Indices(zones) :
            NestedCountryRegionCity(a, b, c) =>
                /\ At(zones, c).parent = Some(b)
                /\ At(zones, b).parent = Some(a)
                /\ At(zones, a).parent = None

RankedBelow(k, c) ==
    /\ InList(At(inclusions, c), k)
    /\ \/ LevelRank(At(zones, k)) < LevelRank(At(zones, c))
       \/ LevelRank(At(zones, k)) = LevelRank(At(zones, c)) /\ k < c

UnmappedCountryPositions(m) ==
    { p \in 1 .. m : zones_type[p].kind = "InvalidCountry" }

\* C10: the merge step of a zone whose country has no rule table records
\* the code on the zone, adds one to the counter of that code and to no
\* other counter, and leaves the type absent; the zone then stays at its
\* position, untyped, until the run is over; once create_ontology has
\* returned Ok the zone is not in the collection.
C10_UnmappedCountryZoneCountedThenPruned ==
    [][ /\ ( /\ pc = "merge"
             /\ merged' = merged + 1
             /\ zones_type[merged'].kind = "InvalidCountry" ) =>
              LET c == zones_type[merged'].cc
                  old == stats.zone_with_unkwown_country_rules
                  new == stats'.zone_with_unkwown_country_rules
              IN  /\ c \notin DOMAIN Rules
                  /\ zones'[merged'].country_code = Some(c)
                  /\ zones'[merged'].zone_type = None
                  /\ new[c] = MapGet(old, c) + 1
                  /\ DOMAIN new = DOMAIN old \cup {c}
                  /\ \A d \in DOMAIN old : d # c => new[d] = old[d]
                  /\ stats'.zone_without_country = stats.zone_without_country
                  /\ stats'.unhandled_admin_level = stats.unhandled_admin_level
        /\ (pc' \in {"merge", "build_hierarchy", "additional_places",
                      "compute_names", "compute_labels"}) =>
              \A p \in UnmappedCountryPositions(merged)' :
                  /\ zones'[p].osm_id = ReadFromPbf[p].osm_id
                  /\ zones'[p].zone_type = None
                  /\ zones'[p].country_code = Some(zones_type'[p].cc)
        /\ result' = "Ok" =>
              \A p \in UnmappedCountryPositions(merged)' :
                  \A q \in 1 .. Len(zones') :
                      zones'[q].osm_id # ReadFromPbf[p].osm_id
      ]_vars

\* C10 witness: a run that returned Ok after counting two zones of the
\* country ZZ, which has no rules, and removing them.
C10_Witness ==
    /\ result = "Ok"
    /\ Len(zones_type) >= 2
    /\ MapGet(stats.zone_with_unkwown_country_rules, "ZZ") >= 2
    /\ \A q \in 1 .. Len(zones) : zones[q].country_code # Some("ZZ")

\* The statistics the merge of type_zones leaves, folding the outcomes
\* from position k on.
RECURSIVE MergeAll(_, _, _)
MergeAll(st, outcomes, k) ==
    IF k > Len(outcomes)
    THEN st
    ELSE MergeAll(MergeStats(st, outcomes[k]), outcomes, k + 1)

\* The statistics of create_ontology on a pbf and a global country code:
\* whether places are attributed is not among what they depend on.
StatsOfRun(objs, cc) ==
    LET zs == ReadZones(objs, 1, <<>>)
        incls == find_inclusions(zs)
        finder == CountryFinderInit(zs)
    IN  MergeAll(DefaultStats,
                 [ p \in 1 .. Len(zs) |-> TypeOf(finder, zs, zs[p], cc, incls) ],
                 1)

\* C11: with disable_voronoi set, from the end of build_hierarchy to the
\* prune the zones are those read from the pbf, each at its position with
\* its index, none of them synthetic, and none is synthetic after the
\* prune; and the statistics create_ontology leaves are those of the pbf
\* and the global country code alone, the same with places attributed or
\* not.
C11_DisabledAttributionAddsNoZone ==
    /\ (disable_voronoi /\ HierarchyBuilt) =>
          /\ Len(zones) = Len(ReadFromPbf)
          /\ \A p \in 1 .. Len(zones) :
                /\ zones[p].id = p - 1
                /\ zones[p].osm_id = ReadFromPbf[p].osm_id
                /\ zones[p].boundary = ReadFromPbf[p].boundary
                /\ zones[p].zone_type # Some("NonAdministrative")
    /\ (disable_voronoi /\ result = "Ok") =>
          \A q \in 1 .. Len(zones) :
              /\ zones[q].zone_type # Some("NonAdministrative")
              /\ \E p \in 1 .. Len(ReadFromPbf) :
                    ReadFromPbf[p].osm_id = zones[q].osm_id
    /\ (HierarchyBuilt \/ result = "Ok") => stats = StatsOfRun(pbf, country_code)

\* C11 witness: attribution is disabled on a pbf with a place that would
\* have become a synthetic zone, the names are about to be computed and a
\* statistic has been counted.
C11_Witness ==
    /\ disable_voronoi
    /\ pc = "compute_names"
    /\ Len(compute_additional_places(zones, pbf)) > Len(zones)
    /\ stats # DefaultStats

\* C12: with a global country code, every outcome of the map is the one
\* get_zone_type gives for the upper-cased global code, whatever the
\* finder holds (so none is "no country"), zone_without_country stays 0
\* and every zone the merge has gone through carries that code; and, with
\* or without a global code, the country_code of a zone changes only in
\* the merge step of that zone, from absent, which happens once per zone.
C12_GlobalCodeSkipsResolution ==
    [][ /\ country_code # None =>
              LET c == ToUpper(Unwrap(country_code))
              IN  /\ \A p \in 1 .. Len(zones_type') :
                        zones_type'[p] # Pending =>
                            /\ zones_type'[p].kind # "None"
                            /\ zones_type'[p].cc = c
                            /\ zones_type'[p] =
                                  get_zone_type(ReadFromPbf[p], c,
                                                inclusions[p], ReadFromPbf)
                  /\ stats'.zone_without_country = 0
                  /\ pc' \in {"merge", "build_hierarchy", "additional_places",
                               "compute_names", "compute_labels"} =>
                        \A p \in 1 .. merged' :
                            zones'[p].country_code = Some(c)
                  /\ result' = "Ok" =>
                        \A q \in 1 .. Len(zones') :
                            (\E p \in 1 .. Len(ReadFromPbf) :
                                ReadFromPbf[p].osm_id = zones'[q].osm_id)
                            => zones'[q].country_code = Some(c)
        /\ cleaned' = cleaned =>
              /\ Len(zones') >= Len(zones)
              /\ \A p \in 1 .. Len(zones) :
                    zones'[p].country_code # zones[p].country_code =>
                        /\ zones[p].country_code = None
                        /\ pc = "merge"
                        /\ p = merged + 1
                        /\ merged' = merged + 1
        /\ cleaned' # cleaned =>
              \A q \in 1 .. Len(zones') :
                  \E p \in 1 .. Len(zones) :
                      /\ zones[p].osm_id = zones'[q].osm_id
                      /\ zones[p].country_code = zones'[q].country_code
        /\ merged' # merged => (merged' = 0 \/ merged' = merged + 1)
      ]_vars

\* C12 witness: the global code "fr" was given, type_zones has returned,
\* and a zone for which the finder finds no country carries FR and a type.
C12_Witness ==
    /\ pc = "build_hierarchy"
    /\ country_code = Some("fr")
    /\ \E p \in 1 .. Len(zones) :
          /\ TypeOf(CountryFinderInit(ReadFromPbf), ReadFromPbf, ReadFromPbf[p],
                    None, inclusions).kind = "None"
          /\ zones[p].country_code = Some("FR")
          /\ zones[p].zone_type # None

\* map[k1][k2], 0 when the map of maps does not hold the keys.
MapGet2(map, k1, k2) == IF k1 \in DOMAIN map THEN MapGet(map[k1], k2) ELSE 0

\* The key a level is counted under: the level, 0 for an absent one.
LevelKey(lvl) == IF lvl = None THEN 0 ELSE lvl[1]

\* C13: the merge step of a zone whose country has rules but none for its
\* level records the country code on the zone, leaves its type absent,
\* adds one to the counter of (country, level) and changes no other
\* counter and no other zone; an absent level is counted under 0, so the
\* counter of (country, 0) is the number of merged zones of that country
\* whose level is absent or is the integer 0.
C13_UnmappedLevelCountedByCountryAndLevel ==
    [][ /\ ( /\ pc = "merge"
             /\ merged' = merged + 1
             /\ zones_type[merged'].kind = "UnkownLevel" ) =>
              LET o == zones_type[merged']
                  c == o.cc
                  l == LevelKey(o.lvl)
                  old == stats.unhandled_admin_level
                  new == stats'.unhandled_admin_level
              IN  /\ c \in DOMAIN Rules
                  /\ l \notin DOMAIN Rules[c]
                  /\ o.lvl = zones[merged'].admin_level
                  /\ zones'[merged'].country_code = Some(c)
                  /\ zones'[merged'].zone_type = None
                  /\ \A p \in 1 .. Len(zones) :
                        p # merged' => zones'[p] = zones[p]
                  /\ MapGet2(new, c, l) = MapGet2(old, c, l) + 1
                  /\ DOMAIN new = DOMAIN old \cup {c}
                  /\ \A d \in DOMAIN new :
                        /\ DOMAIN new[d] =
                              (IF d \in DOMAIN old THEN DOMAIN old[d] ELSE {})
                                  \cup (IF d = c THEN {l} ELSE {})
                        /\ \A m \in DOMAIN new[d] :
                              (d # c \/ m # l) => new[d][m] = old[d][m]
                  /\ stats'.zone_without_country = stats.zone_without_country
                  /\ stats'.zone_with_unkwown_country_rules
                        = stats.zone_with_unkwown_country_rules
        /\ pc' \in {"merge", "build_hierarchy"} =>
              \A c \in DOMAIN Rules :
                  MapGet2(stats'.unhandled_admin_level, c, 0) =
                      Cardinality({ p \in 1 .. merged' :
                                      /\ zones_type'[p].kind = "UnkownLevel"
                                      /\ zones_type'[p].cc = c
                                      /\ zones'[p].admin_level \in {None, Some(0)} })
      ]_vars

\* C13 witness: type_zones has returned with a zone without level and a
\* zone of level 0, both of FR, counted in the one counter of (FR, 0).
C13_Witness ==
    /\ pc = "build_hierarchy"
    /\ MapGet2(stats.unhandled_admin_level, "FR", 0) = 2
    /\ \E p, q \in 1 .. Len(zones) :
          /\ zones[p].admin_level = None
          /\ zones[q].admin_level = Some(0)
          /\ zones[p].country_code = Some("FR")
          /\ zones[q].country_code = Some("FR")
          /\ zones[p].zone_type = None
          /\ zones[q].zone_type = None

\* The orders the zones of a collection of n zones can be processed in.
Orders(n) ==
    { f \in [1 .. n -> 0 .. (n - 1)] :
        \A a, b \in 1 .. n : a # b => f[a] # f[b] }

\* The collection after the labels are computed in an order, from its
\* k-th zone on.
RECURSIVE LabelsIn(_, _, _)
LabelsIn(zs, order, k) ==
    IF k > Len(zs)
    THEN zs
    ELSE LabelsIn([zs EXCEPT ![order[k] + 1] = ZoneComputeLabels(zs, order[k])],
                  order, k + 1)

\* The collection with no label computed.
Unlabelled(zs) == [ p \in 1 .. Len(zs) |-> [zs[p] EXCEPT !.label = None] ]

\* C14: turn i of the loop of compute_labels changes the label of zone i
\* and nothing else of the collection; a label changes in no other step;
\* when the loop starts every zone has its name and no zone a label; and
\* the labels the loop ends with are those of every order the zones could
\* be processed in.
C14_LabelStepMutatesOneZoneOrderFree ==
    [][ /\ (pc = "compute_labels" /\ labelled' = labelled + 1) =>
              /\ Len(zones') = Len(zones)
              /\ \A p \in 1 .. Len(zones) :
                    p # labelled + 1 => zones'[p] = zones[p]
              /\ zones'[labelled + 1].label # None
              /\ zones[labelled + 1].label = None
              /\ zones'[labelled + 1] =
                    [zones[labelled + 1] EXCEPT !.label = zones'[labelled + 1].label]
        /\ cleaned' = cleaned =>
              \A p \in 1 .. Len(zones) :
                  (p <= Len(zones') /\ zones'[p].label # zones[p].label) =>
                      (pc = "compute_labels" /\ p = labelled + 1)
        /\ (pc' = "compute_labels" /\ labelled' = 0) =>
              \A p \in 1 .. Len(zones') :
                  zones'[p].name # None /\ zones'[p].label = None
        /\ (cleaned' = cleaned /\ \E p \in 1 .. Len(zones') : zones'[p].label # None) =>
              \A q \in 1 .. Len(zones') : zones'[q].name # None
        /\ (pc' = "compute_labels" /\ labelled' = Len(zones')) =>
              \A order \in Orders(Len(zones')) :
                  LabelsIn(Unlabelled(zones'), order, 1) = zones'
      ]_vars

\* C14 witness: every label is computed, and a zone that was labelled
\* before its parent has a label made of its name and its parent's.
C14_Witness ==
    /\ pc = "compute_labels"
    /\ labelled = Len(zones)
    /\ \E p \in 1 .. Len(zones) :
          /\ zones[p].parent # None
          /\ Unwrap(zones[p].parent) > p - 1
          /\ Len(Unwrap(zones[p].label)) >= 2

\* The relations of the pbf a zone is kept of.
KeptObjs == { k \in 1 .. Len(pbf) : pbf[k].kind = "zone" }

TypingZones ==
    \/ pc \in {"find_inclusions", "type_zones", "map", "merge", "build_hierarchy"}
    \/ result \in {"ErrRules", "ErrNoCountry"}

\* C15: from get_zones_and_stats to the return of type_zones, the zones
\* are the kept relations in the order of the pbf, whatever candidates
\* were discarded between them, and the index of each zone is its
\* position; so in the map the list found at inclusions[z.id.index] holds
\* exactly the zones that contain z, the outcome stored at a position is
\* the one of the zone at that position, and the merge has written it to
\* that zone.
C15_IndexIsPosition ==
    TypingZones =>
        /\ Len(zones) = Cardinality(KeptObjs)
        /\ \A p \in 1 .. Len(zones) :
              /\ zones[p].id = p - 1
              /\ zones[p].osm_id \in KeptObjs
              /\ \A q \in 1 .. Len(zones) :
                    p < q => zones[p].osm_id < zones[q].osm_id
        /\ pc \in {"map", "merge", "build_hierarchy"} =>
              /\ Len(inclusions) = Len(zones)
              /\ Len(zones_type) = Len(zones)
              /\ \A p \in 1 .. Len(zones) :
                    LET list == At(inclusions, zones[p].id)
                    IN  /\ \A j \in Indices(zones) :
                              InList(list, j) <=>
                                  (j # p - 1 /\ Contains(At(zones, j), zones[p]))
                        /\ zones_type[p] # Pending =>
                              zones_type[p] =
                                  TypeOf(CountryFinderInit(zones), zones, zones[p],
                                         country_code, inclusions)
                        /\ (pc = "build_hierarchy" \/ p <= merged) =>
                              /\ zones[p].country_code =
                                    (IF zones_type[p].kind = "None"
                                     THEN None ELSE Some(zones_type[p].cc))
                              /\ zones[p].zone_type =
                                    (IF zones_type[p].kind = "Ok"
                                     THEN Some(zones_type[p].t) ELSE None)

\* C15 witness: the merge is over on a pbf where a discarded candidate
\* lies between two kept relations, and the zone after it has a
\* non-empty containment list.
C15_Witness ==
    /\ pc = "merge"
    /\ merged = Len(zones)
    /\ \E a, b, c \in 1 .. Len(pbf) :
          /\ a < b /\ b < c
          /\ pbf[a].kind = "zone"
          /\ pbf[b].kind \in {"noboundary", "nozone"}
          /\ pbf[c].kind = "zone"
          /\ \E p \in 1 .. Len(zones) :
                /\ zones[p].osm_id = c
                /\ zones[p].id = p - 1
                /\ inclusions[p] # <<>>

\* The zone that had index k before the prune had a type: a zone of the
\* typing map by its outcome, a zone added for a place always.
WasTyped(k) == IF k < Len(zones_type) THEN zones_type[k + 1].kind = "Ok" ELSE TRUE

\* Index k is the index of a zone of the collection.
Remains(k) == \E r \in 1 .. Len(zones) : zones[r].id = k

====
